---- MODULE Spec2Model ----
(***************************************************************************)
(* A model of the LLVM IR type algebra of package types (type nodes, their  *)
(* String/Def rendering, Equal and SetAlias) and of the aggregate resolver  *)
(* aggregateElemType of package ir.                                         *)
(*                                                                          *)
(* Go type nodes are heap objects reached through pointers, so the model    *)
(* keeps a heap: a sequence of node records, a type reference being an      *)
(* index into it.  Sharing, in-place mutation (SetAlias, stores to the      *)
(* exported fields) and cyclic type graphs are therefore expressible.       *)
(***************************************************************************)
EXTENDS Integers, Sequences, FiniteSets, TLC

VARIABLES
    heap,   \* the allocated type nodes; heap[t] is the node behind reference t
    vals,   \* the allocated values: operands, instructions, constant expressions
    ret,    \* the last call made on the library and what it returned
    threads \* the goroutines inside a call of Type(), each with its position

vars == <<heap, vals, ret, threads>>

(***************************************************************************)
(* Type nodes.                                                              *)
(***************************************************************************)

\* The composite literals &T{...} of the variants, every field not given
\* at its zero value.  A reference to no node (nil) does not occur.
VoidType == [variant |-> "void", Alias |-> ""]

MMXType == [variant |-> "mmx", Alias |-> ""]

LabelType == [variant |-> "label", Alias |-> ""]

TokenType == [variant |-> "token", Alias |-> ""]

MetadataType == [variant |-> "metadata", Alias |-> ""]

IntType(bitSize) == [variant |-> "int", Alias |-> "", BitSize |-> bitSize]

FloatType(kind) == [variant |-> "float", Alias |-> "", Kind |-> kind]

PointerType(elemType) ==
    [variant |-> "pointer", Alias |-> "", ElemType |-> elemType,
     AddrSpace |-> 0]

VectorType(len, elemType) ==
    [variant |-> "vector", Alias |-> "", Len |-> len, ElemType |-> elemType]

ArrayType(len, elemType) ==
    [variant |-> "array", Alias |-> "", Len |-> len, ElemType |-> elemType]

StructType(fields) ==
    [variant |-> "struct", Alias |-> "", Packed |-> FALSE, Fields |-> fields,
     Opaque |-> FALSE]

FuncType(retType, params) ==
    [variant |-> "func", Alias |-> "", RetType |-> retType,
     Params |-> params, Variadic |-> FALSE]

\* The references a heap holds.
Refs(h) == 1..Len(h)

(***************************************************************************)
(* Results.  A Go call either returns a value or does not return: it        *)
(* panics, or the runtime kills the process.  fault = "" is a normal        *)
(* return of val; otherwise fault names how the call ended.                 *)
(***************************************************************************)
Returns(v) == [fault |-> "", val |-> v]

Fails(how, v) == [fault |-> how, val |-> v]

\* The call did not return: it panicked or the process died.
Crashed(res) == res.fault # ""

\* Unbounded recursion: the Go runtime ends the process (not recoverable).
StackOverflow == "fatal error: stack overflow"

\* t.Fields[i] with i outside 0..len-1: a run-time panic of the Go runtime.
IndexOutOfRange == "panic: runtime error: index out of range"

\* panic(fmt.Errorf("support for aggregate type %T not yet implemented", t))
UnsupportedAggregate == "panic: support for aggregate type not yet implemented"

(***************************************************************************)
(* Rendering.                                                               *)
(***************************************************************************)

\* enc.Local: the local-identifier form of a name.  The names of the model
\* are plain identifiers, which need no escaping or quoting.
Local(name) == "%" \o name

\* FloatKind.String (stringer -linecomment: the constants' line comments).
FloatKindString(kind) ==
    CASE kind = 0 -> "half"
      [] kind = 1 -> "float"
      [] kind = 2 -> "double"
      [] kind = 3 -> "x86_fp80"
      [] kind = 4 -> "fp128"
      [] kind = 5 -> "ppc_fp128"
      [] OTHER -> "FloatKind(" \o ToString(kind) \o ")"

\* AddrSpace.String
AddrSpaceString(a) == "addrspace(" \o ToString(a) \o ")"

\* Concatenation in a call chain that may already have overflowed the stack.
Cat(a, b) ==
    IF a = StackOverflow THEN StackOverflow
    ELSE IF b = StackOverflow THEN StackOverflow
    ELSE a \o b

\* String and Def call each other down the type graph.  seen holds the
\* nodes whose String is on the call stack: a call of String on one of them
\* is the same call nested in itself, so the chain never returns and the
\* stack overflows.
RECURSIVE StringD(_, _, _), DefD(_, _, _), TypesD(_, _, _, _)

\* String with the alias never looked at: always Def.
StringDNoAlias(h, t, seen) ==
    IF t \in seen THEN StackOverflow
    ELSE DefD(h, t, seen \cup {t})

\* String of every variant: the alias when set, else Def.
StringD(h, t, seen) ==
    IF t \in seen THEN StackOverflow
    ELSE IF h[t].Alias # "" THEN Local(h[t].Alias)
    ELSE DefD(h, t, seen \cup {t})

\* The loop of StructType.Def and FuncType.Def: ts[i..] joined by ", ".
TypesD(h, ts, i, seen) ==
    IF i > Len(ts) THEN ""
    ELSE Cat(Cat(IF i # 1 THEN ", " ELSE "", StringD(h, ts[i], seen)),
             TypesD(h, ts, i + 1, seen))

FuncTypeDef(h, n, seen) ==
    Cat(Cat(Cat(StringD(h, n.RetType, seen), " ("),
            TypesD(h, n.Params, 1, seen)),
        (IF n.Variadic
         THEN (IF Len(n.Params) > 0 THEN ", " ELSE "") \o "..."
         ELSE "") \o ")")

\* PointerType.Def with the address space written also when it is 0.
PointerTypeDefAddrSpaceAlways(h, n, seen) ==
    Cat(StringD(h, n.ElemType, seen),
        " " \o AddrSpaceString(n.AddrSpace) \o "*")

PointerTypeDef(h, n, seen) ==
    Cat(StringD(h, n.ElemType, seen),
        (IF n.AddrSpace # 0 THEN " " \o AddrSpaceString(n.AddrSpace) ELSE "")
            \o "*")

VectorTypeDef(h, n, seen) ==
    Cat("<" \o ToString(n.Len) \o " x ",
        Cat(StringD(h, n.ElemType, seen), ">"))

ArrayTypeDef(h, n, seen) ==
    Cat("[" \o ToString(n.Len) \o " x ",
        Cat(StringD(h, n.ElemType, seen), "]"))

StructTypeDef(h, n, seen) ==
    IF n.Opaque THEN "opaque"
    ELSE Cat((IF n.Packed THEN "<" ELSE "") \o "{ ",
             Cat(TypesD(h, n.Fields, 1, seen),
                 " }" \o (IF n.Packed THEN ">" ELSE "")))

DefD(h, t, seen) ==
    LET n == h[t] IN
    CASE n.variant = "void" -> "void"
      [] n.variant = "mmx" -> "x86_mmx"
      [] n.variant = "label" -> "label"
      [] n.variant = "token" -> "token"
      [] n.variant = "metadata" -> "metadata"
      [] n.variant = "int" -> "i" \o ToString(n.BitSize)
      [] n.variant = "float" -> FloatKindString(n.Kind)
      [] n.variant = "pointer" -> PointerTypeDef(h, n, seen)
      [] n.variant = "vector" -> VectorTypeDef(h, n, seen)
      [] n.variant = "array" -> ArrayTypeDef(h, n, seen)
      [] n.variant = "struct" -> StructTypeDef(h, n, seen)
      [] n.variant = "func" -> FuncTypeDef(h, n, seen)

\* t.String() and t.Def(): the text, or StackOverflow.
String(h, t) == StringD(h, t, {})

Def(h, t) == DefD(h, t, {})

(***************************************************************************)
(* Equality.  seen holds the pairs <<t, u>> whose t.Equal(u) is on the      *)
(* call stack.                                                              *)
(***************************************************************************)
RECURSIVE EqualD(_, _, _, _), TypesEqualD(_, _, _, _, _)

\* for i := range ts { if !ts[i].Equal(us[i]) { return false } }; true
TypesEqualD(h, ts, us, i, seen) ==
    IF i > Len(ts) THEN Returns(TRUE)
    ELSE LET r == EqualD(h, ts[i], us[i], seen) IN
         IF r.fault # "" THEN r
         ELSE IF ~r.val THEN Returns(FALSE)
         ELSE TypesEqualD(h, ts, us, i + 1, seen)

\* VoidType, MMXType, LabelType, TokenType, MetadataType: the same variant.
BasicTypeEqual(n, m) == Returns(m.variant = n.variant)

\* IntType.Equal with the result for a u of another variant inverted.
IntTypeEqualOtherVariant(n, m) ==
    IF m.variant = "int" THEN Returns(n.BitSize = m.BitSize)
    ELSE Returns(TRUE)

IntTypeEqual(n, m) ==
    IF m.variant = "int" THEN Returns(n.BitSize = m.BitSize)
    ELSE Returns(FALSE)

FloatTypeEqual(n, m) ==
    IF m.variant = "float" THEN Returns(n.Kind = m.Kind)
    ELSE Returns(FALSE)

\* The two rendered strings are compared, whatever variant u is.
PointerTypeEqual(h, t, u) ==
    LET a == String(h, t)
        b == String(h, u)
    IN  IF a = StackOverflow \/ b = StackOverflow
        THEN Fails(StackOverflow, FALSE)
        ELSE Returns(a = b)

\* VectorType.Equal and ArrayType.Equal: same variant, length, element.
SeqTypeEqual(h, n, m, seen) ==
    IF m.variant = n.variant
    THEN IF n.Len # m.Len THEN Returns(FALSE)
         ELSE EqualD(h, n.ElemType, m.ElemType, seen)
    ELSE Returns(FALSE)

\* StructType.Equal without the identified-struct rule: always structural.
StructTypeEqualNoAlias(h, n, m, seen) ==
    IF m.variant = "struct"
    THEN IF n.Packed # m.Packed THEN Returns(FALSE)
         ELSE IF Len(n.Fields) # Len(m.Fields) THEN Returns(FALSE)
         ELSE TypesEqualD(h, n.Fields, m.Fields, 1, seen)
    ELSE Returns(FALSE)

\* StructType.Equal with the identified-struct rule applied only when both
\* structs are identified (&& for ||).
StructTypeEqualBothAliased(h, n, m, seen) ==
    IF m.variant = "struct"
    THEN IF n.Alias # "" /\ m.Alias # ""
         THEN Returns(n.Alias = m.Alias)
         ELSE IF n.Packed # m.Packed THEN Returns(FALSE)
         ELSE IF Len(n.Fields) # Len(m.Fields) THEN Returns(FALSE)
         ELSE TypesEqualD(h, n.Fields, m.Fields, 1, seen)
    ELSE Returns(FALSE)

\* StructType.Equal with equal aliases not deciding: only different aliases
\* return, equal ones go on to the structural comparison.
StructTypeEqualAliasThenFields(h, n, m, seen) ==
    IF m.variant = "struct"
    THEN IF (n.Alias # "" \/ m.Alias # "") /\ n.Alias # m.Alias
         THEN Returns(FALSE)
         ELSE IF n.Packed # m.Packed THEN Returns(FALSE)
         ELSE IF Len(n.Fields) # Len(m.Fields) THEN Returns(FALSE)
         ELSE TypesEqualD(h, n.Fields, m.Fields, 1, seen)
    ELSE Returns(FALSE)

StructTypeEqual(h, n, m, seen) ==
    IF m.variant = "struct"
    THEN IF n.Alias # "" \/ m.Alias # ""
         THEN Returns(n.Alias = m.Alias)
         ELSE IF n.Packed # m.Packed THEN Returns(FALSE)
         ELSE IF Len(n.Fields) # Len(m.Fields) THEN Returns(FALSE)
         ELSE TypesEqualD(h, n.Fields, m.Fields, 1, seen)
    ELSE Returns(FALSE)

FuncTypeEqual(h, n, m, seen) ==
    IF m.variant = "func"
    THEN LET r == EqualD(h, n.RetType, m.RetType, seen) IN
         IF r.fault # "" THEN r
         ELSE IF ~r.val THEN Returns(FALSE)
         ELSE IF Len(n.Params) # Len(m.Params) THEN Returns(FALSE)
         ELSE LET p == TypesEqualD(h, n.Params, m.Params, 1, seen) IN
              IF p.fault # "" THEN p
              ELSE IF ~p.val THEN Returns(FALSE)
              ELSE Returns(n.Variadic = m.Variadic)
    ELSE Returns(FALSE)

\* t.Equal(u), dispatched on the variant of t.
EqualD(h, t, u, seen) ==
    IF <<t, u>> \in seen THEN Fails(StackOverflow, FALSE)
    ELSE LET n == h[t]
             m == h[u]
             on == seen \cup {<<t, u>>}
         IN  CASE n.variant \in {"void", "mmx", "label", "token", "metadata"}
                    -> BasicTypeEqual(n, m)
               [] n.variant = "int" -> IntTypeEqual(n, m)
               [] n.variant = "float" -> FloatTypeEqual(n, m)
               [] n.variant = "pointer" -> PointerTypeEqual(h, t, u)
               [] n.variant \in {"vector", "array"} -> SeqTypeEqual(h, n, m, on)
               [] n.variant = "struct" -> StructTypeEqual(h, n, m, on)
               [] n.variant = "func" -> FuncTypeEqual(h, n, m, on)

\* t.Equal(u): Returns(TRUE), Returns(FALSE), or the stack overflows.
Equal(h, t, u) == EqualD(h, t, u, {})

(***************************************************************************)
(* The aggregate resolver.                                                  *)
(***************************************************************************)
RECURSIVE aggregateElemType(_, _, _)

\* The resolver with the struct step selecting the field after the indexed
\* one (an off-by-one in the field selection).
aggregateElemTypeNextField(h, t, indices) ==
    IF Len(indices) = 0 THEN Returns(t)
    ELSE CASE h[t].variant = "array"
                -> aggregateElemType(h, h[t].ElemType, Tail(indices))
           [] h[t].variant = "struct"
                -> IF Head(indices) < 0 \/ Head(indices) + 1 >= Len(h[t].Fields)
                   THEN Fails(IndexOutOfRange, 0)
                   ELSE aggregateElemType(h, h[t].Fields[Head(indices) + 2],
                                          Tail(indices))
           [] OTHER -> Fails(UnsupportedAggregate, 0)

\* The resolver with the array step checked against the array length.
aggregateElemTypeCheckedArray(h, t, indices) ==
    IF Len(indices) = 0 THEN Returns(t)
    ELSE CASE h[t].variant = "array"
                -> IF Head(indices) < 0 \/ Head(indices) >= h[t].Len
                   THEN Fails(IndexOutOfRange, 0)
                   ELSE aggregateElemType(h, h[t].ElemType, Tail(indices))
           [] h[t].variant = "struct"
                -> IF Head(indices) < 0 \/ Head(indices) >= Len(h[t].Fields)
                   THEN Fails(IndexOutOfRange, 0)
                   ELSE aggregateElemType(h, h[t].Fields[Head(indices) + 1],
                                          Tail(indices))
           [] OTHER -> Fails(UnsupportedAggregate, 0)

\* The element type at the position in aggregate type t given by indices.
\* Go indexes from 0, a TLA+ sequence from 1.
aggregateElemType(h, t, indices) ==
    IF Len(indices) = 0 THEN Returns(t)
    ELSE CASE h[t].variant = "array"
                -> aggregateElemType(h, h[t].ElemType, Tail(indices))
           [] h[t].variant = "struct"
                -> IF Head(indices) < 0 \/ Head(indices) >= Len(h[t].Fields)
                   THEN Fails(IndexOutOfRange, 0)
                   ELSE aggregateElemType(h, h[t].Fields[Head(indices) + 1],
                                          Tail(indices))
           [] OTHER -> Fails(UnsupportedAggregate, 0)

(***************************************************************************)
(* Values.  vals is the heap of values: vals[v] is the value behind         *)
(* reference v.  A value is an operand that is no operation (a parameter    *)
(* or a literal constant), an instruction (the 13 conversions,              *)
(* extractvalue, insertvalue) or a constant expression (the 13              *)
(* conversions, icmp, fcmp, select).                                        *)
(***************************************************************************)

\* The nil types.Type of a result type not cached yet.
Nil == 0

\* The conversions, by the name their Go types share (InstTrunc, ExprTrunc).
Conversions ==
    {"Trunc", "ZExt", "SExt", "FPTrunc", "FPExt", "FPToUI", "FPToSI",
     "UIToFP", "SIToFP", "PtrToInt", "IntToPtr", "BitCast", "AddrSpaceCast"}

\* A named value that is no operation (a function parameter) and a literal
\* integer constant: the operands the operations start from.
Param(typ, name) == [kind |-> "param", Typ |-> typ, LocalName |-> name]

IntConst(typ, x) == [kind |-> "const", Typ |-> typ, X |-> x]

\* &InstTrunc{From: from, To: to}, ..., &InstAddrSpaceCast{From: from, To: to}
InstConversion(variant, from, to) ==
    [kind |-> "inst", variant |-> variant, LocalName |-> "",
     From |-> from, To |-> to, Metadata |-> <<>>]

\* &ExprTrunc{From: from, To: to}, ..., &ExprAddrSpaceCast{From: from, To: to}
ExprConversion(variant, from, to) ==
    [kind |-> "expr", variant |-> variant, From |-> from, To |-> to]

ExprICmp(pred, x, y) == [kind |-> "icmp", Pred |-> pred, X |-> x, Y |-> y]

ExprFCmp(pred, x, y) == [kind |-> "fcmp", Pred |-> pred, X |-> x, Y |-> y]

ExprSelect(cond, x, y) == [kind |-> "select", Cond |-> cond, X |-> x, Y |-> y]

InstExtractValue(x, indices) ==
    [kind |-> "extractvalue", LocalName |-> "", X |-> x, Indices |-> indices,
     Typ |-> Nil, Metadata |-> <<>>]

InstInsertValue(x, elem, indices) ==
    [kind |-> "insertvalue", LocalName |-> "", X |-> x, Elem |-> elem,
     Indices |-> indices, Typ |-> Nil, Metadata |-> <<>>]

\* A metadata attachment: !name !node.
MetadataAttachment(name, node) == [Name |-> name, Node |-> node]

\* The values that implement Constant; instructions and parameters do not.
IsConstant(n) == n.kind \in {"const", "expr", "icmp", "fcmp", "select"}

IsInstruction(n) == n.kind \in {"inst", "extractvalue", "insertvalue"}

IsExpression(n) == n.kind \in {"expr", "icmp", "fcmp", "select"}

\* panic("not yet implemented")
NotYetImplemented == "panic: not yet implemented"

(***************************************************************************)
(* Type() of the values.                                                    *)
(***************************************************************************)
RECURSIVE ValueType(_, _, _)

\* Type() of a conversion instruction with the operand's type for the
\* target type.
InstConversionTypeOfFrom(h, vs, n) == ValueType(h, vs, n.From)

InstConversionType(h, vs, n) == Returns(n.To)

ExprConversionType(h, vs, n) == Returns(n.To)

ExprICmpType(n) == Fails(NotYetImplemented, Nil)

ExprFCmpType(n) == Fails(NotYetImplemented, Nil)

ExprSelectType(h, vs, n) == ValueType(h, vs, n.X)

\* Type() of extractvalue without the resolver: the operand's type, as
\* insertvalue has it.
InstExtractValueTypeOfX(h, vs, n) ==
    IF n.Typ = Nil THEN ValueType(h, vs, n.X) ELSE Returns(n.Typ)

\* The result of Type(): the cached type, or the resolver's result on
\* inst.X.Type(); a panic of either call leaves Type() by panic.
InstExtractValueType(h, vs, n) ==
    IF n.Typ = Nil
    THEN LET x == ValueType(h, vs, n.X)
         IN  IF Crashed(x) THEN x
             ELSE aggregateElemType(h, x.val, n.Indices)
    ELSE Returns(n.Typ)

\* Type() of insertvalue with the index path resolved, as extractvalue
\* has it.
InstInsertValueTypeResolved(h, vs, n) ==
    IF n.Typ = Nil
    THEN LET x == ValueType(h, vs, n.X)
         IN  IF Crashed(x) THEN x
             ELSE aggregateElemType(h, x.val, n.Indices)
    ELSE Returns(n.Typ)

InstInsertValueType(h, vs, n) ==
    IF n.Typ = Nil THEN ValueType(h, vs, n.X) ELSE Returns(n.Typ)

ValueType(h, vs, v) ==
    LET n == vs[v]
    IN  CASE n.kind \in {"param", "const"} -> Returns(n.Typ)
          [] n.kind = "inst" -> InstConversionType(h, vs, n)
          [] n.kind = "expr" -> ExprConversionType(h, vs, n)
          [] n.kind = "icmp" -> ExprICmpType(n)
          [] n.kind = "fcmp" -> ExprFCmpType(n)
          [] n.kind = "select" -> ExprSelectType(h, vs, n)
          [] n.kind = "extractvalue" -> InstExtractValueType(h, vs, n)
          [] n.kind = "insertvalue" -> InstInsertValueType(h, vs, n)

\* The values after v.Type(): extractvalue and insertvalue store the type
\* in inst.Typ once Type() returned it, and so do the instructions whose
\* Type() that call made on the way.
RECURSIVE TypeCached(_, _, _)

\* The cache filled with the operand's type by extractvalue as well.
TypeCachedOperandType(h, vs, v) ==
    LET n == vs[v]
    IN  CASE n.kind = "select" -> TypeCached(h, vs, n.X)
          [] n.kind \in {"extractvalue", "insertvalue"} ->
               IF n.Typ # Nil THEN vs
               ELSE LET below == TypeCached(h, vs, n.X)
                        typ == ValueType(h, below, v)
                        x == ValueType(h, below, n.X)
                    IN  IF Crashed(typ) THEN below
                        ELSE [below EXCEPT ![v].Typ = x.val]
          [] OTHER -> vs

TypeCached(h, vs, v) ==
    LET n == vs[v]
    IN  CASE n.kind = "select" -> TypeCached(h, vs, n.X)
          [] n.kind \in {"extractvalue", "insertvalue"} ->
               IF n.Typ # Nil THEN vs
               ELSE LET below == TypeCached(h, vs, n.X)
                        typ == ValueType(h, below, v)
                    IN  IF Crashed(typ) THEN below
                        ELSE [below EXCEPT ![v].Typ = typ.val]
          [] OTHER -> vs

(***************************************************************************)
(* Rendering of the values.                                                 *)
(***************************************************************************)

\* The keyword each conversion instruction's Def writes.
InstKeyword ==
    [Trunc |-> "trunc", ZExt |-> "zext", SExt |-> "sext",
     FPTrunc |-> "fptrunc", FPExt |-> "fpext",
     FPToUI |-> "fptoui", FPToSI |-> "fptosi",
     UIToFP |-> "uitofp", SIToFP |-> "sitofp",
     PtrToInt |-> "ptrtoint", IntToPtr |-> "inttoptr",
     BitCast |-> "bitcast", AddrSpaceCast |-> "addrspacecast"]

\* The expressions' keywords with fptosi written as its neighbour fptoui.
ExprKeywordFPToUITwice ==
    [Trunc |-> "trunc", ZExt |-> "zext", SExt |-> "sext",
     FPTrunc |-> "fptrunc", FPExt |-> "fpext",
     FPToUI |-> "fptoui", FPToSI |-> "fptoui",
     UIToFP |-> "uitofp", SIToFP |-> "sitofp",
     PtrToInt |-> "ptrtoint", IntToPtr |-> "inttoptr",
     BitCast |-> "bitcast", AddrSpaceCast |-> "addrspacecast"]

\* The keyword each conversion expression's Ident writes.
ExprKeyword ==
    [Trunc |-> "trunc", ZExt |-> "zext", SExt |-> "sext",
     FPTrunc |-> "fptrunc", FPExt |-> "fpext",
     FPToUI |-> "fptoui", FPToSI |-> "fptosi",
     UIToFP |-> "uitofp", SIToFP |-> "sitofp",
     PtrToInt |-> "ptrtoint", IntToPtr |-> "inttoptr",
     BitCast |-> "bitcast", AddrSpaceCast |-> "addrspacecast"]

\* enum.IPred and enum.FPred print as their keyword; the model names a
\* predicate by that keyword.
PredString(pred) == pred

\* A metadata attachment prints as !name !node.
MetadataAttachmentString(md) == "!" \o md.Name \o " !" \o ToString(md.Node)

\* The strings of ss, concatenated.
RECURSIVE CatAll(_)
CatAll(ss) == IF ss = <<>> THEN "" ELSE Cat(Head(ss), CatAll(Tail(ss)))

\* for _, index := range inst.Indices { fmt.Fprintf(buf, ", %v", index) }
RECURSIVE IndexList(_)
IndexList(indices) ==
    IF indices = <<>> THEN ""
    ELSE ", " \o ToString(Head(indices)) \o IndexList(Tail(indices))

\* for _, md := range inst.Metadata { fmt.Fprintf(buf, ", %v", md) }
RECURSIVE MetadataList(_)
MetadataList(mds) ==
    IF mds = <<>> THEN ""
    ELSE ", " \o MetadataAttachmentString(Head(mds)) \o MetadataList(Tail(mds))

\* A string a call returned, unless the call chain overflowed the stack.
ReturnsString(s) ==
    IF s = StackOverflow THEN Fails(StackOverflow, "") ELSE Returns(s)

\* What fmt writes for an operand whose String method panicked: fmt
\* recovers the panic and writes it in place of the operand.
Recovered(fault) ==
    CASE fault = NotYetImplemented
           -> "%!v(PANIC=String method: not yet implemented)"
      [] fault = IndexOutOfRange
           -> "%!v(PANIC=String method: runtime error: index out of range)"
      [] fault = UnsupportedAggregate
           -> "%!v(PANIC=String method: support for aggregate type not yet implemented)"

RECURSIVE ValueString(_, _, _), Ident(_, _, _)

\* An operand under the verb %v: its String().
Operand(h, vs, v) ==
    LET s == ValueString(h, vs, v)
    IN  IF ~Crashed(s) THEN s.val
        ELSE IF s.fault = StackOverflow THEN StackOverflow
        ELSE Recovered(s.fault)

\* String() of every value: fmt.Sprintf("%v %v", v.Type(), v.Ident()).
ValueString(h, vs, v) ==
    LET typ == ValueType(h, vs, v)
    IN  IF Crashed(typ) THEN Fails(typ.fault, "")
        ELSE ReturnsString(CatAll(<<String(h, typ.val), " ", Ident(h, vs, v)>>))

\* Ident() of the instructions: the local identifier of the result.
\* Ident of the instructions without the local-identifier form.
InstIdentRaw(n) == n.LocalName

InstIdent(n) == Local(n.LocalName)

\* Name() of the instructions.
InstName(n) == n.LocalName

ExprConversionIdent(h, vs, n) ==
    CatAll(<<ExprKeyword[n.variant], " (", Operand(h, vs, n.From), " to ",
             String(h, n.To), ")">>)

ExprICmpIdent(h, vs, n) ==
    CatAll(<<"icmp ", PredString(n.Pred), " (", Operand(h, vs, n.X), ", ",
             Operand(h, vs, n.Y), ")">>)

ExprFCmpIdent(h, vs, n) ==
    CatAll(<<"fcmp ", PredString(n.Pred), " (", Operand(h, vs, n.X), ", ",
             Operand(h, vs, n.Y), ")">>)

ExprSelectIdent(h, vs, n) ==
    CatAll(<<"select (", Operand(h, vs, n.Cond), ", ", Operand(h, vs, n.X),
             ", ", Operand(h, vs, n.Y), ")">>)

Ident(h, vs, v) ==
    LET n == vs[v]
    IN  CASE n.kind = "param" -> Local(n.LocalName)
          [] n.kind = "const" -> ToString(n.X)
          [] IsInstruction(n) -> InstIdent(n)
          [] n.kind = "expr" -> ExprConversionIdent(h, vs, n)
          [] n.kind = "icmp" -> ExprICmpIdent(h, vs, n)
          [] n.kind = "fcmp" -> ExprFCmpIdent(h, vs, n)
          [] n.kind = "select" -> ExprSelectIdent(h, vs, n)

\* Def of a conversion instruction without the loop over the metadata.
InstConversionDefNoMetadata(h, vs, n) ==
    CatAll(<<InstKeyword[n.variant], " ", Operand(h, vs, n.From), " to ",
             String(h, n.To)>>)

InstConversionDef(h, vs, n) ==
    CatAll(<<InstKeyword[n.variant], " ", Operand(h, vs, n.From), " to ",
             String(h, n.To), MetadataList(n.Metadata)>>)

\* Def of extractvalue with the two loops in the other order.
InstExtractValueDefMetadataFirst(h, vs, n) ==
    CatAll(<<"extractvalue ", Operand(h, vs, n.X),
             MetadataList(n.Metadata), IndexList(n.Indices)>>)

InstExtractValueDef(h, vs, n) ==
    CatAll(<<"extractvalue ", Operand(h, vs, n.X),
             IndexList(n.Indices), MetadataList(n.Metadata)>>)

InstInsertValueDef(h, vs, n) ==
    CatAll(<<"insertvalue ", Operand(h, vs, n.X), ", ", Operand(h, vs, n.Elem),
             IndexList(n.Indices), MetadataList(n.Metadata)>>)

\* Def() of the instructions.
ValueDef(h, vs, v) ==
    LET n == vs[v]
    IN  CASE n.kind = "inst" -> ReturnsString(InstConversionDef(h, vs, n))
          [] n.kind = "extractvalue" -> ReturnsString(InstExtractValueDef(h, vs, n))
          [] n.kind = "insertvalue" -> ReturnsString(InstInsertValueDef(h, vs, n))

\* The values after v.Def(): String() of each operand, in the order
\* written, called Type() on it.
DefCached(h, vs, v) ==
    LET n == vs[v]
    IN  CASE n.kind = "inst" -> TypeCached(h, vs, n.From)
          [] n.kind = "extractvalue" -> TypeCached(h, vs, n.X)
          [] n.kind = "insertvalue" ->
               TypeCached(h, TypeCached(h, vs, n.X), n.Elem)

\* Simplify() of the constant expressions.
ExprSimplify(vs, e) == Fails(NotYetImplemented, Nil)

(***************************************************************************)
(* The library as a state machine.  Its caller allocates type nodes with    *)
(* the constructors, stores to their exported fields, and calls the         *)
(* functions; ret holds the result of the call just made until the caller   *)
(* takes it and goes on.                                                    *)
(***************************************************************************)
Call(op, args, res) == [op |-> op, args |-> args, res |-> res]

\* No call is waiting for its result to be taken.
Idle == Call("", <<>>, Returns(0))

\* The convenience types of package types the model starts with.
I8 == 1
I16 == 2
I32 == 3

Init ==
    /\ heap = <<IntType(8), IntType(16), IntType(32)>>
    /\ vals = <<>>
    /\ ret = Idle
    /\ threads = <<>>

\* The last node allocated.
Top == Len(heap)

\* &T{...}: a fresh node.
Alloc(node) ==
    /\ ret.op = ""
    /\ heap' = Append(heap, node)
    /\ UNCHANGED <<vals, ret, threads>>

\* A store to a field of node t.
Store(t, node) ==
    /\ ret.op = ""
    /\ heap' = [heap EXCEPT ![t] = node]
    /\ UNCHANGED <<vals, ret, threads>>

NewPointer(elemType) == Alloc(PointerType(elemType))

NewArray(len, elemType) == Alloc(ArrayType(len, elemType))

NewStruct(fields) == Alloc(StructType(fields))

NewFunc(retType, params) == Alloc(FuncType(retType, params))

\* SetAlias of every variant.
SetAlias(t, alias) == Store(t, [heap[t] EXCEPT !.Alias = alias])

\* t.Fields = fields, t.Packed = b, t.Opaque = b on a struct type.
SetFields(t, fields) ==
    /\ heap[t].variant = "struct"
    /\ Store(t, [heap[t] EXCEPT !.Fields = fields])

SetPacked(t, b) ==
    /\ heap[t].variant = "struct"
    /\ Store(t, [heap[t] EXCEPT !.Packed = b])

SetOpaque(t, b) ==
    /\ heap[t].variant = "struct"
    /\ Store(t, [heap[t] EXCEPT !.Opaque = b])

\* t.AddrSpace = a on a pointer type.
SetAddrSpace(t, a) ==
    /\ heap[t].variant = "pointer"
    /\ Store(t, [heap[t] EXCEPT !.AddrSpace = a])

\* t.Variadic = b on a function type.
SetVariadic(t, b) ==
    /\ heap[t].variant = "func"
    /\ Store(t, [heap[t] EXCEPT !.Variadic = b])

CallEqual(t, u) ==
    /\ ret.op = ""
    /\ ret' = Call("Equal", <<t, u>>, Equal(heap, t, u))
    /\ UNCHANGED <<heap, vals, threads>>

CallAggregateElemType(t, indices) ==
    /\ ret.op = ""
    /\ ret' = Call("aggregateElemType", <<t, indices>>,
                   aggregateElemType(heap, t, indices))
    /\ UNCHANGED <<heap, vals, threads>>

\* NewInt
NewInt(bitSize) == Alloc(IntType(bitSize))

\* The last value allocated.
TopValue == Len(vals)

\* &T{...}: a fresh value, returned by the constructor op called with args.
AllocValue(op, args, node) ==
    /\ ret.op = ""
    /\ vals' = Append(vals, node)
    /\ ret' = Call(op, args, Returns(Len(vals) + 1))
    /\ UNCHANGED <<heap, threads>>

\* A store to a field of value v.
StoreValue(v, node) ==
    /\ ret.op = ""
    /\ vals' = [vals EXCEPT ![v] = node]
    /\ UNCHANGED <<heap, ret, threads>>

\* The caller supplies an operand that is no operation.
NewParam(typ, name) ==
    /\ ret.op = ""
    /\ vals' = Append(vals, Param(typ, name))
    /\ UNCHANGED <<heap, ret, threads>>

NewIntConst(typ, x) ==
    /\ ret.op = ""
    /\ vals' = Append(vals, IntConst(typ, x))
    /\ UNCHANGED <<heap, ret, threads>>

\* NewTrunc, ..., NewAddrSpaceCast
NewConversion(variant, from, to) ==
    AllocValue("New" \o variant, <<from, to>>, InstConversion(variant, from, to))

\* NewTruncExpr, ..., NewAddrSpaceCastExpr: from is a Constant.
NewConversionExpr(variant, from, to) ==
    /\ IsConstant(vals[from])
    /\ AllocValue("New" \o variant \o "Expr", <<from, to>>,
                  ExprConversion(variant, from, to))

NewICmpExpr(pred, x, y) ==
    /\ IsConstant(vals[x]) /\ IsConstant(vals[y])
    /\ AllocValue("NewICmpExpr", <<pred, x, y>>, ExprICmp(pred, x, y))

NewFCmpExpr(pred, x, y) ==
    /\ IsConstant(vals[x]) /\ IsConstant(vals[y])
    /\ AllocValue("NewFCmpExpr", <<pred, x, y>>, ExprFCmp(pred, x, y))

\* return &ExprSelect{Cond: cond, X: x, Y: x}
NewSelectExpr(cond, x, y) ==
    /\ IsConstant(vals[cond]) /\ IsConstant(vals[x]) /\ IsConstant(vals[y])
    /\ AllocValue("NewSelectExpr", <<cond, x, y>>, ExprSelect(cond, x, x))

NewExtractValue(x, indices) ==
    AllocValue("NewExtractValue", <<x, indices>>, InstExtractValue(x, indices))

NewInsertValue(x, elem, indices) ==
    AllocValue("NewInsertValue", <<x, elem, indices>>,
               InstInsertValue(x, elem, indices))

\* SetName with the cached type dropped as well.
SetNameDropsTyp(v, name) ==
    /\ ret.op = ""
    /\ IsInstruction(vals[v])
    /\ vals' = [vals EXCEPT
                  ![v] = IF "Typ" \in DOMAIN vals[v]
                         THEN [vals[v] EXCEPT !.LocalName = name, !.Typ = Nil]
                         ELSE [vals[v] EXCEPT !.LocalName = name]]
    /\ ret' = Call("SetName", <<v, name>>, Returns(Nil))
    /\ UNCHANGED <<heap, threads>>

\* SetName of the instructions: inst.LocalName = name.
SetName(v, name) ==
    /\ ret.op = ""
    /\ IsInstruction(vals[v])
    /\ vals' = [vals EXCEPT ![v].LocalName = name]
    /\ ret' = Call("SetName", <<v, name>>, Returns(Nil))
    /\ UNCHANGED <<heap, threads>>

\* inst.Metadata = mds
SetMetadata(v, mds) ==
    /\ IsInstruction(vals[v])
    /\ StoreValue(v, [vals[v] EXCEPT !.Metadata = mds])

CallType(v) ==
    /\ ret.op = ""
    /\ ret' = Call("Type", <<v>>, ValueType(heap, vals, v))
    /\ vals' = TypeCached(heap, vals, v)
    /\ UNCHANGED <<heap, threads>>

CallString(v) ==
    /\ ret.op = ""
    /\ ret' = Call("String", <<v>>, ValueString(heap, vals, v))
    /\ vals' = TypeCached(heap, vals, v)
    /\ UNCHANGED <<heap, threads>>

CallIdent(v) ==
    /\ ret.op = ""
    /\ ret' = Call("Ident", <<v>>, ReturnsString(Ident(heap, vals, v)))
    /\ UNCHANGED <<heap, vals, threads>>

CallDef(v) ==
    /\ ret.op = ""
    /\ IsInstruction(vals[v])
    /\ ret' = Call("Def", <<v>>, ValueDef(heap, vals, v))
    /\ vals' = DefCached(heap, vals, v)
    /\ UNCHANGED <<heap, threads>>

CallSimplify(e) ==
    /\ ret.op = ""
    /\ IsExpression(vals[e])
    /\ ret' = Call("Simplify", <<e>>, ExprSimplify(vals, e))
    /\ UNCHANGED <<heap, vals, threads>>

\* t.String() and t.Def() of a type node, called by the caller.
CallTypeString(t) ==
    /\ ret.op = ""
    /\ ret' = Call("Type.String", <<t>>, ReturnsString(String(heap, t)))
    /\ UNCHANGED <<heap, vals, threads>>

CallTypeDef(t) ==
    /\ ret.op = ""
    /\ ret' = Call("Type.Def", <<t>>, ReturnsString(Def(heap, t)))
    /\ UNCHANGED <<heap, vals, threads>>

CallName(v) ==
    /\ ret.op = ""
    /\ IsInstruction(vals[v])
    /\ ret' = Call("Name", <<v>>, Returns(InstName(vals[v])))
    /\ UNCHANGED <<heap, vals, threads>>

(***************************************************************************)
(* Type() of extractvalue and insertvalue called from several goroutines.   *)
(* The method takes no lock.  inst.Typ is an interface value, two machine   *)
(* words (the type word and the data word), and the Go memory model lets    *)
(* an implementation store and load the words of a racing multiword value   *)
(* one by one in an unspecified order.  A goroutine goes through            *)
(*   check:   if inst.Typ == nil          (loads the type word)             *)
(*   compute: aggregateElemType(inst.X.Type(), inst.Indices) / X.Type()     *)
(*   store:   inst.Typ = ...              (first word, then the other)      *)
(*   load:    return inst.Typ             (first word, then the other)      *)
(* vals[v].Typ holds the field once the second word of a store is written;  *)
(* a goroutine between its two stores has written the word in its wrote.    *)
(***************************************************************************)
Goroutine(v) ==
    [self |-> v, pc |-> "check", typ |-> Nil, wrote |-> "",
     loaded |-> "", tab |-> "", data |-> Nil, fault |-> ""]

Words == {"tab", "data"}

\* The goroutines between the two stores of inst.Typ of v that have written
\* word w.
Writers(v, w) ==
    {i \in 1..Len(threads) :
        /\ threads[i].self = v
        /\ threads[i].pc = "store-rest"
        /\ threads[i].wrote = w}

\* The type word of an interface value holding type node t: its dynamic
\* type.
TypeWord(t) == IF t = Nil THEN "" ELSE heap[t].variant

\* The words of inst.Typ of v in memory.
TabWord(v) ==
    IF vals[v].Typ # Nil THEN TypeWord(vals[v].Typ)
    ELSE IF Writers(v, "tab") # {}
    THEN TypeWord(threads[CHOOSE i \in Writers(v, "tab") : TRUE].typ)
    ELSE ""

DataWord(v) ==
    IF vals[v].Typ # Nil THEN vals[v].Typ
    ELSE IF Writers(v, "data") # {}
    THEN threads[CHOOSE i \in Writers(v, "data") : TRUE].typ
    ELSE Nil

\* go inst.Type()
GoType(v) ==
    /\ ret.op = ""
    /\ vals[v].kind \in {"extractvalue", "insertvalue"}
    /\ threads' = Append(threads, Goroutine(v))
    /\ UNCHANGED <<heap, vals, ret>>

\* if inst.Typ == nil
TypeCheck(i) ==
    /\ threads[i].pc = "check"
    /\ threads' = [threads EXCEPT
                     ![i].pc = IF TabWord(threads[i].self) = ""
                               THEN "compute" ELSE "load"]
    /\ UNCHANGED <<heap, vals, ret>>

\* The right-hand side of the assignment; a panic ends the goroutine.
TypeCompute(i) ==
    /\ threads[i].pc = "compute"
    /\ LET n == vals[threads[i].self]
           x == ValueType(heap, vals, n.X)
           typ == IF n.kind = "insertvalue" \/ Crashed(x) THEN x
                  ELSE aggregateElemType(heap, x.val, n.Indices)
       IN  threads' = [threads EXCEPT
                         ![i] = IF Crashed(typ)
                                THEN [@ EXCEPT !.pc = "panicked",
                                               !.fault = typ.fault]
                                ELSE [@ EXCEPT !.pc = "store",
                                               !.typ = typ.val]]
    /\ UNCHANGED <<heap, vals, ret>>

\* inst.Typ = ...: the first word stored.
TypeStore(i, w) ==
    /\ threads[i].pc = "store"
    /\ threads' = [threads EXCEPT ![i].pc = "store-rest", ![i].wrote = w]
    /\ UNCHANGED <<heap, vals, ret>>

\* inst.Typ = ...: the other word stored.
TypeStoreRest(i) ==
    /\ threads[i].pc = "store-rest"
    /\ vals' = [vals EXCEPT ![threads[i].self].Typ = threads[i].typ]
    /\ threads' = [threads EXCEPT ![i].pc = "load"]
    /\ UNCHANGED <<heap, ret>>

\* return inst.Typ: the first word loaded.
TypeLoad(i, w) ==
    /\ threads[i].pc = "load"
    /\ threads' = [threads EXCEPT
                     ![i].pc = "load-rest",
                     ![i].loaded = w,
                     ![i].tab = IF w = "tab" THEN TabWord(threads[i].self)
                                ELSE @,
                     ![i].data = IF w = "data" THEN DataWord(threads[i].self)
                                 ELSE @]
    /\ UNCHANGED <<heap, vals, ret>>

\* return inst.Typ: the other word loaded, and the call returns.
TypeLoadRest(i) ==
    /\ threads[i].pc = "load-rest"
    /\ threads' = [threads EXCEPT
                     ![i].pc = "done",
                     ![i].tab = IF threads[i].loaded = "data"
                                THEN TabWord(threads[i].self) ELSE @,
                     ![i].data = IF threads[i].loaded = "tab"
                                 THEN DataWord(threads[i].self) ELSE @]
    /\ UNCHANGED <<heap, vals, ret>>

\* The caller takes the result and goes on.
TakeResult ==
    /\ ret.op # ""
    /\ ret' = Idle
    /\ UNCHANGED <<heap, vals, threads>>

\* Sequences of at most n references out of refs.
TypeLists(refs, n) == UNION {[1..k -> refs] : k \in 0..n}

(***************************************************************************)
(* The aggregate resolver's specification: aggregates are built bottom-up   *)
(* from the convenience types and index paths are resolved on them.         *)
(***************************************************************************)
MaxAggNodes == 6     \* type nodes allocated, the convenience types included
MaxFields == 2       \* fields of a struct type
MaxPath == 3         \* indices of an index path
IndexVals == {-1, 0, 1, 2, 99}
ArrayLens == {4}

Paths == UNION {[1..n -> IndexVals] : n \in 0..MaxPath}

\* An aggregate is built from the convenience types and the aggregate built
\* before it.
Grows(components) == Top = I32 \/ Top \in components

NextAgg ==
    \/ \E len \in ArrayLens, elemType \in Refs(heap) :
         /\ Len(heap) < MaxAggNodes
         /\ Grows({elemType})
         /\ NewArray(len, elemType)
    \/ \E fields \in TypeLists(Refs(heap), MaxFields) :
         /\ Len(heap) < MaxAggNodes
         /\ Grows({fields[i] : i \in 1..Len(fields)})
         /\ NewStruct(fields)
    \/ \E indices \in Paths : CallAggregateElemType(Top, indices)
    \/ TakeResult

SpecAgg == Init /\ [][NextAgg]_vars


(***************************************************************************)
(* The specification of nominal identity: struct and pointer types over    *)
(* the convenience types i8 and i32, aliases set and cleared on all of      *)
(* them, and Equal called on every pair.                                    *)
(***************************************************************************)
MaxNomNodes == 5     \* type nodes allocated, the convenience types included
MaxNomFields == 1    \* fields of a struct type
Aliases == {"a", "b"}
AddrSpaces == {0, 1}

\* The nodes the type specifications work with.
TypeRefs == Refs(heap) \ {I16}

NextNominal ==
    \/ \E fields \in TypeLists(TypeRefs, MaxNomFields) :
         /\ Len(heap) < MaxNomNodes
         /\ NewStruct(fields)
    \/ \E elemType \in TypeRefs :
         /\ Len(heap) < MaxNomNodes
         /\ NewPointer(elemType)
    \/ \E t \in TypeRefs, alias \in Aliases \cup {""} :
         /\ heap[t].Alias # alias
         /\ SetAlias(t, alias)
    \/ \E t \in TypeRefs : SetPacked(t, ~heap[t].Packed)
    \/ \E t \in TypeRefs : SetOpaque(t, ~heap[t].Opaque)
    \/ \E t \in TypeRefs, a \in AddrSpaces :
         /\ heap[t].variant = "pointer"
         /\ heap[t].AddrSpace # a
         /\ SetAddrSpace(t, a)
    \/ \E t, u \in TypeRefs : CallEqual(t, u)
    \/ TakeResult

SpecNominal == Init /\ [][NextNominal]_vars

(***************************************************************************)
(* The specification of structural equality: pointer, array, struct and     *)
(* function types without aliases, each built from the nodes before it, its *)
(* flags stored once it is built, and compared with every node.             *)
(***************************************************************************)
MaxStructuralNodes == 6  \* type nodes allocated, the convenience types included
MaxStructuralFields == 1 \* fields of a struct type, parameters of a function type
StructuralLens == {2, 4}

\* The node just built is one of this specification's.
TopIs(variant) == Top > I32 /\ heap[Top].variant = variant

NextStructural ==
    \/ \E elemType \in TypeRefs :
         /\ Len(heap) < MaxStructuralNodes
         /\ NewPointer(elemType)
    \/ \E len \in StructuralLens, elemType \in TypeRefs :
         /\ Len(heap) < MaxStructuralNodes
         /\ NewArray(len, elemType)
    \/ \E fields \in TypeLists(TypeRefs, MaxStructuralFields) :
         /\ Len(heap) < MaxStructuralNodes
         /\ NewStruct(fields)
    \/ \E retType \in TypeRefs, params \in TypeLists(TypeRefs, MaxStructuralFields) :
         /\ Len(heap) < MaxStructuralNodes
         /\ NewFunc(retType, params)
    \/ TopIs("struct") /\ ~heap[Top].Packed /\ SetPacked(Top, TRUE)
    \/ TopIs("struct") /\ ~heap[Top].Opaque /\ SetOpaque(Top, TRUE)
    \/ TopIs("pointer") /\ heap[Top].AddrSpace = 0 /\ SetAddrSpace(Top, 1)
    \/ TopIs("func") /\ ~heap[Top].Variadic /\ SetVariadic(Top, TRUE)
    \/ \E u \in TypeRefs : CallEqual(Top, u)
    \/ \E t \in TypeRefs : CallEqual(t, Top)
    \/ TakeResult

SpecStructural == Init /\ [][NextStructural]_vars

(***************************************************************************)
(* The specification of cyclic types: struct types and pointers to them,    *)
(* the pointers stored into the fields of the structs they point to.        *)
(***************************************************************************)
MaxCycleNodes == 7   \* type nodes allocated, the convenience types included

\* The nodes this specification works with.
CycleRefs == Refs(heap) \ {I8, I16}

Structs(refs) == {t \in refs : heap[t].variant = "struct"}

NextCycle ==
    \/ /\ Len(heap) < MaxCycleNodes
       /\ NewStruct(<<>>)
    \/ \E elemType \in Structs(CycleRefs) :
         /\ Len(heap) < MaxCycleNodes
         /\ NewPointer(elemType)
    \/ \E t \in Structs(CycleRefs), fields \in TypeLists(CycleRefs \ Structs(CycleRefs), MaxNomFields) :
         /\ heap[t].Fields # fields
         /\ SetFields(t, fields)
    \/ \E t \in Structs(CycleRefs), alias \in Aliases \cup {""} :
         /\ heap[t].Alias # alias
         /\ SetAlias(t, alias)
    \/ \E t, u \in Structs(CycleRefs) : CallEqual(t, u)
    \/ TakeResult

SpecCycle == Init /\ [][NextCycle]_vars

(***************************************************************************)
(* The specification of the conversions and of the other constant          *)
(* expressions: i64, operands of type i32 and i64, then operations on them, *)
(* each given its metadata and called once it is built.                     *)
(***************************************************************************)
MaxConvValues == 3   \* values allocated
MaxMetadata == 2     \* metadata attachments of an instruction
IPreds == {"eq"}
FPreds == {"oeq"}

\* The k-th attachment given to an instruction.
Attachment(k) == MetadataAttachment(IF k % 2 = 1 THEN "dbg" ELSE "prof", k)

\* The types of the operands and the target types: i32 and, once made, i64.
ConvTypes == Refs(heap) \ {I8, I16}

\* inst.Metadata = append(inst.Metadata, md)
AddMetadata(v) ==
    SetMetadata(v, Append(vals[v].Metadata,
                          Attachment(Len(vals[v].Metadata) + 1)))

Constants(vs) == {v \in Refs(vs) : IsConstant(vs[v])}

TopIsInstruction == TopValue > 0 /\ IsInstruction(vals[TopValue])

NextConversion ==
    \/ Top = I32 /\ NewInt(64)
    \/ \E typ \in ConvTypes, name \in {"x"} :
         /\ Top # I32
         /\ Len(vals) < MaxConvValues
         /\ NewParam(typ, name)
    \/ \E typ \in ConvTypes :
         /\ Top # I32
         /\ Len(vals) < MaxConvValues
         /\ NewIntConst(typ, 1)
    \/ \E variant \in Conversions, from \in Refs(vals), to \in ConvTypes :
         /\ Len(vals) < MaxConvValues
         /\ NewConversion(variant, from, to)
    \/ \E variant \in Conversions, from \in Refs(vals), to \in ConvTypes :
         /\ Len(vals) < MaxConvValues
         /\ NewConversionExpr(variant, from, to)
    \/ \E pred \in IPreds, x, y \in Refs(vals) :
         /\ Len(vals) < MaxConvValues
         /\ NewICmpExpr(pred, x, y)
    \/ \E pred \in FPreds, x, y \in Refs(vals) :
         /\ Len(vals) < MaxConvValues
         /\ NewFCmpExpr(pred, x, y)
    \/ \E cond, x, y \in Refs(vals) :
         /\ Len(vals) < MaxConvValues
         /\ NewSelectExpr(cond, x, y)
    \/ /\ TopIsInstruction
       /\ Len(vals[TopValue].Metadata) < MaxMetadata
       /\ AddMetadata(TopValue)
    \/ TopValue > 0 /\ CallType(TopValue)
    \/ TopValue > 0 /\ CallString(TopValue)
    \/ TopValue > 0 /\ CallIdent(TopValue)
    \/ TopIsInstruction /\ CallDef(TopValue)
    \/ TopValue > 0 /\ CallSimplify(TopValue)
    \/ TakeResult

SpecConversion == Init /\ [][NextConversion]_vars

(***************************************************************************)
(* The specification of extractvalue and insertvalue: an aggregate type,    *)
(* operands of that type and of an element's type, then the instructions    *)
(* on them, each given its metadata and called once it is built.            *)
(***************************************************************************)
MaxAggInstNodes == 4   \* type nodes allocated, the convenience types included
MaxAggInstValues == 3  \* values allocated
MaxAggInstPath == 2    \* indices of an instruction
AggInstIndexVals == {0, 1}

AggInstPaths == UNION {[1..k -> AggInstIndexVals] : k \in 0..MaxAggInstPath}

\* The types of the operands: the aggregate built last and i8.
AggInstTypes == {Top, I8}

NextAggInst ==
    \/ \E len \in ArrayLens, elemType \in TypeRefs :
         /\ vals = <<>>
         /\ Len(heap) < MaxAggInstNodes
         /\ Grows({elemType})
         /\ NewArray(len, elemType)
    \/ \E fields \in TypeLists(TypeRefs, MaxFields) :
         /\ vals = <<>>
         /\ Len(heap) < MaxAggInstNodes
         /\ Grows({fields[i] : i \in 1..Len(fields)})
         /\ NewStruct(fields)
    \/ \E typ \in AggInstTypes, name \in {"s"} :
         /\ Len(vals) < MaxAggInstValues
         /\ NewParam(typ, name)
    \/ \E x \in Refs(vals), indices \in AggInstPaths :
         /\ Len(vals) < MaxAggInstValues
         /\ NewExtractValue(x, indices)
    \/ \E x, elem \in Refs(vals), indices \in AggInstPaths :
         /\ Len(vals) < MaxAggInstValues
         /\ NewInsertValue(x, elem, indices)
    \/ /\ TopIsInstruction
       /\ Len(vals[TopValue].Metadata) < MaxMetadata
       /\ AddMetadata(TopValue)
    \/ TopIsInstruction /\ CallType(TopValue)
    \/ TopIsInstruction /\ CallString(TopValue)
    \/ TopIsInstruction /\ CallDef(TopValue)
    \/ TakeResult

SpecAggInst == Init /\ [][NextAggInst]_vars

(***************************************************************************)
(* The specification of type rendering: i64, then pointer, array, struct    *)
(* and function types over the nodes before them, the flags of each stored  *)
(* once it is built, aliases set and cleared on the nodes built, and        *)
(* String and Def called on the node built last.                            *)
(***************************************************************************)
MaxRenderNodes == 5   \* type nodes allocated, the convenience types included
MaxRenderFields == 2  \* fields of a struct type, parameters of a function type

\* The nodes built by this specification.
RenderRefs == Refs(heap) \ {I8, I16, I32}

NextRender ==
    \/ Top = I32 /\ NewInt(64)
    \/ \E elemType \in TypeRefs :
         /\ Len(heap) < MaxRenderNodes
         /\ NewPointer(elemType)
    \/ \E len \in ArrayLens, elemType \in TypeRefs :
         /\ Len(heap) < MaxRenderNodes
         /\ NewArray(len, elemType)
    \/ \E fields \in TypeLists(TypeRefs, MaxRenderFields) :
         /\ Len(heap) < MaxRenderNodes
         /\ NewStruct(fields)
    \/ \E retType \in TypeRefs, params \in TypeLists(TypeRefs, MaxRenderFields) :
         /\ Len(heap) < MaxRenderNodes
         /\ NewFunc(retType, params)
    \/ TopIs("struct") /\ ~heap[Top].Packed /\ SetPacked(Top, TRUE)
    \/ TopIs("struct") /\ ~heap[Top].Opaque /\ SetOpaque(Top, TRUE)
    \/ TopIs("pointer") /\ heap[Top].AddrSpace = 0 /\ SetAddrSpace(Top, 1)
    \/ TopIs("func") /\ ~heap[Top].Variadic /\ SetVariadic(Top, TRUE)
    \/ \E t \in RenderRefs, alias \in Aliases \cup {""} :
         /\ heap[t].Alias # alias
         /\ SetAlias(t, alias)
    \/ Top > I32 /\ CallTypeString(Top)
    \/ Top > I32 /\ CallTypeDef(Top)
    \/ TakeResult

SpecRender == Init /\ [][NextRender]_vars

(***************************************************************************)
(* The specification of instruction names: a struct type, an operand of    *)
(* it, then instructions of every opcode on the values before them, named   *)
(* and renamed, and Ident and Name called on them.                          *)
(***************************************************************************)
MaxNameValues == 3   \* values allocated
Names == {"", "a", "b"}

Instructions(vs) == {v \in Refs(vs) : IsInstruction(vs[v])}

NextName ==
    \/ Top = I32 /\ NewStruct(<<I32, I8>>)
    \/ /\ Top > I32
       /\ vals = <<>>
       /\ NewParam(Top, "s")
    \/ \E variant \in Conversions, from \in Refs(vals) :
         /\ Len(vals) < MaxNameValues
         /\ NewConversion(variant, from, I32)
    \/ \E x \in Refs(vals) :
         /\ Len(vals) < MaxNameValues
         /\ NewExtractValue(x, <<0>>)
    \/ \E x, elem \in Refs(vals) :
         /\ Len(vals) < MaxNameValues
         /\ NewInsertValue(x, elem, <<0>>)
    \/ \E v \in Instructions(vals), name \in Names : SetName(v, name)
    \/ \E v \in Instructions(vals) : CallIdent(v)
    \/ \E v \in Instructions(vals) : CallName(v)
    \/ TakeResult

SpecName == Init /\ [][NextName]_vars

(***************************************************************************)
(* The specification of an instruction's lifetime: the struct type          *)
(* { i32, i8 }, operands of it and of i8, then trunc, extractvalue and      *)
(* insertvalue instructions on the values before them, named, given         *)
(* metadata, and Type, String, Ident, Def and Name called on them in any    *)
(* order.                                                                   *)
(***************************************************************************)
MaxLifetimeValues == 3    \* values allocated
MaxLifetimeMetadata == 1  \* metadata attachments of an instruction
LifetimePaths == {<<>>, <<1>>, <<2>>}

NextLifetime ==
    \/ Top = I32 /\ NewStruct(<<I32, I8>>)
    \/ \E typ \in AggInstTypes :
         /\ Top > I32
         /\ Len(vals) < MaxLifetimeValues
         /\ NewParam(typ, "s")
    \/ \E from \in Refs(vals) :
         /\ Len(vals) < MaxLifetimeValues
         /\ NewConversion("Trunc", from, I32)
    \/ \E x \in Refs(vals), indices \in LifetimePaths :
         /\ Len(vals) < MaxLifetimeValues
         /\ NewExtractValue(x, indices)
    \/ \E x, elem \in Refs(vals), indices \in LifetimePaths :
         /\ Len(vals) < MaxLifetimeValues
         /\ NewInsertValue(x, elem, indices)
    \/ \E v \in Instructions(vals), name \in Names : SetName(v, name)
    \/ /\ TopIsInstruction
       /\ Len(vals[TopValue].Metadata) < MaxLifetimeMetadata
       /\ AddMetadata(TopValue)
    \/ \E v \in Instructions(vals) : CallType(v)
    \/ \E v \in Instructions(vals) : CallString(v)
    \/ \E v \in Instructions(vals) : CallIdent(v)
    \/ \E v \in Instructions(vals) : CallDef(v)
    \/ \E v \in Instructions(vals) : CallName(v)
    \/ TakeResult

SpecLifetime == Init /\ [][NextLifetime]_vars

(***************************************************************************)
(* The specification of shared type nodes: pointer types to and operands    *)
(* and conversions of the convenience types i8 and i32, aliases set and     *)
(* cleared on the type nodes, and the types read back through their         *)
(* owners.                                                                  *)
(***************************************************************************)
MaxSharedNodes == 4    \* type nodes allocated, the convenience types included
MaxSharedValues == 3   \* values allocated
SharedConversions == {"Trunc", "ZExt"}

NextShared ==
    \/ \E elemType \in TypeRefs :
         /\ Len(heap) < MaxSharedNodes
         /\ NewPointer(elemType)
    \/ \E typ \in {I8, I32} :
         /\ vals = <<>>
         /\ NewParam(typ, "x")
    \/ \E variant \in SharedConversions, from \in Refs(vals), to \in {I8, I32} :
         /\ Len(vals) < MaxSharedValues
         /\ NewConversion(variant, from, to)
    \/ \E t \in TypeRefs, alias \in Aliases \cup {""} :
         /\ heap[t].Alias # alias
         /\ SetAlias(t, alias)
    \/ \E v \in Instructions(vals) : CallType(v)
    \/ \E v \in Instructions(vals) : CallString(v)
    \/ \E t \in TypeRefs : CallTypeString(t)
    \/ \E t \in TypeRefs : CallTypeDef(t)
    \/ \E t, u \in TypeRefs : CallEqual(t, u)
    \/ TakeResult

SpecShared == Init /\ [][NextShared]_vars

(***************************************************************************)
(* The specification of concurrent Type() calls: the struct type            *)
(* { i32, i8 }, an operand of it, one extractvalue or insertvalue on it,    *)
(* and goroutines that call Type() on that instruction.                     *)
(***************************************************************************)
MaxThreads == 2   \* goroutines started

NextRace ==
    \/ Top = I32 /\ NewStruct(<<I32, I8>>)
    \/ /\ Top > I32
       /\ vals = <<>>
       /\ NewParam(Top, "s")
    \/ \E indices \in LifetimePaths :
         /\ Len(vals) = 1
         /\ NewExtractValue(1, indices)
    \/ \E indices \in LifetimePaths :
         /\ Len(vals) = 1
         /\ NewInsertValue(1, 1, indices)
    \/ TakeResult
    \/ /\ TopIsInstruction
       /\ Len(threads) < MaxThreads
       /\ GoType(TopValue)
    \/ \E i \in 1..Len(threads) : TypeCheck(i)
    \/ \E i \in 1..Len(threads) : TypeCompute(i)
    \/ \E i \in 1..Len(threads), w \in Words : TypeStore(i, w)
    \/ \E i \in 1..Len(threads) : TypeStoreRest(i)
    \/ \E i \in 1..Len(threads), w \in Words : TypeLoad(i, w)
    \/ \E i \in 1..Len(threads) : TypeLoadRest(i)

SpecRace == Init /\ [][NextRace]_vars

(***************************************************************************)
(* Properties of Equal.                                                     *)
(***************************************************************************)
Compared == ret.op = "Equal"

\* The receiver and the argument of the Equal call ret records.
lhs == ret.args[1]
rhs == ret.args[2]

IsStruct(t) == heap[t].variant = "struct"

Aliased(t) == heap[t].Alias # ""

\* C1 (SpecNominal): two struct types with identical field lists and
\* different non-empty aliases are not Equal; two struct types with the same
\* non-empty alias are Equal, whatever their field lists, packed flags and
\* opaque flags are.
C1_NominalOverridesStructural ==
    (Compared /\ IsStruct(lhs) /\ IsStruct(rhs) /\ Aliased(lhs) /\ Aliased(rhs))
      => /\ (/\ heap[lhs].Alias # heap[rhs].Alias
             /\ heap[lhs].Fields = heap[rhs].Fields)
              => ret.res = Returns(FALSE)
         /\ heap[lhs].Alias = heap[rhs].Alias => ret.res = Returns(TRUE)

C1_Witness ==
    /\ Compared /\ IsStruct(lhs) /\ IsStruct(rhs) /\ lhs # rhs
    /\ Aliased(lhs) /\ Aliased(rhs)
    /\ heap[lhs].Alias # heap[rhs].Alias
    /\ heap[lhs].Fields = heap[rhs].Fields
    /\ heap[lhs].Fields # <<>>
    /\ ret.res = Returns(FALSE)

\* C2 (SpecNominal): a struct type with a non-empty alias and a struct type
\* with an empty alias are not Equal, in either argument order, even with the
\* same packed flag and the same fields.
C2_AliasedNeverEqualsLiteral ==
    (Compared /\ IsStruct(lhs) /\ IsStruct(rhs) /\ Aliased(lhs) # Aliased(rhs))
      => ret.res = Returns(FALSE)

C2_Witness ==
    /\ Compared /\ IsStruct(lhs) /\ IsStruct(rhs)
    /\ ~Aliased(lhs) /\ Aliased(rhs)
    /\ heap[lhs].Packed = heap[rhs].Packed
    /\ heap[lhs].Opaque = heap[rhs].Opaque
    /\ heap[lhs].Fields = heap[rhs].Fields
    /\ heap[lhs].Fields # <<>>
    /\ ret.res = Returns(FALSE)

\* C3 as claimed (SpecNominal): for two type nodes of any variant that both
\* carry a non-empty alias, Equal is true exactly when the aliases are equal.
C3_AliasDecidesEveryVariant ==
    (Compared /\ Aliased(lhs) /\ Aliased(rhs))
      => ret.res = Returns(heap[lhs].Alias = heap[rhs].Alias)

\* C3 as amended (SpecNominal): for two type nodes that both carry a
\* non-empty alias, of which both are struct types or the receiver is a
\* pointer type, Equal is true exactly when the aliases are equal, whatever
\* the structural content is.
C3_AliasDecidesStructs ==
    (/\ Compared /\ Aliased(lhs) /\ Aliased(rhs)
     /\ \/ IsStruct(lhs) /\ IsStruct(rhs)
        \/ heap[lhs].variant = "pointer")
      => ret.res = Returns(heap[lhs].Alias = heap[rhs].Alias)

C3_Witness ==
    /\ Compared /\ IsStruct(lhs) /\ IsStruct(rhs) /\ lhs # rhs
    /\ Aliased(lhs)
    /\ heap[lhs].Alias = heap[rhs].Alias
    /\ heap[lhs].Fields # heap[rhs].Fields
    /\ heap[lhs].Packed # heap[rhs].Packed
    /\ heap[lhs].Opaque # heap[rhs].Opaque
    /\ ret.res = Returns(TRUE)

\* C4 (SpecStructural: finite acyclic types, no node aliased): Equal is an
\* equivalence relation: t.Equal(t); t.Equal(u) is u.Equal(t); and t.Equal(u)
\* with u.Equal(v) implies t.Equal(v), for every variant.
C4_EqualIsEquivalence ==
    Compared =>
      /\ ~Crashed(ret.res)
      /\ Equal(heap, lhs, lhs) = Returns(TRUE)
      /\ Equal(heap, rhs, lhs) = ret.res
      /\ \A v \in TypeRefs :
           (ret.res.val /\ Equal(heap, rhs, v).val) => Equal(heap, lhs, v).val

C4_Witness ==
    /\ Compared
    /\ ret.res = Returns(TRUE)
    /\ lhs # rhs
    /\ heap[lhs].variant = "pointer"
    /\ \E v \in TypeRefs \ {lhs, rhs} :
         /\ Equal(heap, rhs, v) = Returns(TRUE)
         /\ Equal(heap, lhs, v) = Returns(TRUE)

\* Same variant, same scalar parameters, pairwise-Equal substructure.
SameStructure(h, t, u) ==
    LET n == h[t]
        m == h[u]
        Eq(a, b) == Equal(h, a, b) = Returns(TRUE)
        EqAll(as, bs) ==
            /\ Len(as) = Len(bs)
            /\ \A i \in 1..Len(as) : Eq(as[i], bs[i])
    IN  /\ n.variant = m.variant
        /\ CASE n.variant = "int" -> n.BitSize = m.BitSize
             [] n.variant = "float" -> n.Kind = m.Kind
             [] n.variant = "pointer" ->
                  n.AddrSpace = m.AddrSpace /\ Eq(n.ElemType, m.ElemType)
             [] n.variant \in {"vector", "array"} ->
                  n.Len = m.Len /\ Eq(n.ElemType, m.ElemType)
             [] n.variant = "struct" ->
                  /\ n.Packed = m.Packed
                  /\ n.Opaque = m.Opaque
                  /\ EqAll(n.Fields, m.Fields)
             [] n.variant = "func" ->
                  /\ n.Variadic = m.Variadic
                  /\ Eq(n.RetType, m.RetType)
                  /\ EqAll(n.Params, m.Params)
             [] OTHER -> TRUE

\* C5 (SpecStructural, no node aliased): Equal is true exactly when the two
\* types are of the same variant, have the same scalar parameters (bit
\* width, length, packed flag, opaque flag, address space, variadic flag) and
\* pairwise-Equal substructure; two structs that differ only in the opaque
\* flag are not Equal.
C5_EqualIsStructural ==
    Compared => ret.res = Returns(SameStructure(heap, lhs, rhs))

\* A struct with a pointer field that points back to the struct.
PointsBackToItself(t) ==
    /\ IsStruct(t)
    /\ \E i \in 1..Len(heap[t].Fields) :
         /\ heap[heap[t].Fields[i]].variant = "pointer"
         /\ heap[heap[t].Fields[i]].ElemType = t

\* C6 (SpecCycle): Equal returns a boolean when called on a struct that
\* contains, through a pointer field, a path back to itself and on another,
\* independently built, identical cyclic struct, with and without an alias.
C6_EqualReturnsOnCycles ==
    (/\ Compared
     /\ lhs # rhs
     /\ PointsBackToItself(lhs)
     /\ PointsBackToItself(rhs)
     /\ heap[lhs].Alias = heap[rhs].Alias)
      => ~Crashed(ret.res)

(***************************************************************************)
(* Properties of the aggregate resolver (checked under SpecAgg).            *)
(***************************************************************************)
Resolved == ret.op = "aggregateElemType"

\* The arguments of the resolver call ret records.
base == ret.args[1]
path == ret.args[2]

\* i is a position of a field of struct node n (Go counts from 0).
ValidField(n, i) == 0 <= i /\ i < Len(n.Fields)

\* Struct{i32, Array(4, Struct{i8, i16})}
IsExampleAggregate(h, t) == Def(h, t) = "{ i32, [4 x { i8, i16 }] }"

\* C7: aggregateElemType(t, path) is the type reached by following path from
\* t: the empty path yields t itself, whatever t is; a path p followed by
\* one more index i yields, when p leads to an array, that array's element
\* type and, when p leads to a struct of which i is a field position, that
\* field's type; and [1, 2, 1] on Struct{i32, Array(4, Struct{i8, i16})}
\* yields i16.
C7_FollowsPath ==
    Resolved =>
      /\ path = <<>> => ret.res = Returns(base)
      /\ path # <<>> =>
           LET i == path[Len(path)]
               r == aggregateElemType(heap, base, SubSeq(path, 1, Len(path) - 1))
           IN  ~Crashed(r) =>
                 /\ heap[r.val].variant = "array"
                      => ret.res = Returns(heap[r.val].ElemType)
                 /\ heap[r.val].variant = "struct" /\ ValidField(heap[r.val], i)
                      => ret.res = Returns(heap[r.val].Fields[i + 1])
      /\ IsExampleAggregate(heap, base) /\ path = <<1, 2, 1>>
           => ret.res = Returns(I16)

C7_Witness ==
    /\ Resolved
    /\ IsExampleAggregate(heap, base)
    /\ path = <<1, 2, 1>>
    /\ ret.res = Returns(I16)

\* C8: when the base type is a struct and the next index is not a position
\* of one of its fields, the resolver reports an error to its caller: the
\* call returns, it does not end in an out-of-range fault or a crash.
C8_StructIndexReported ==
    (/\ Resolved
     /\ path # <<>>
     /\ heap[base].variant = "struct"
     /\ ~ValidField(heap[base], path[1]))
      => ~Crashed(ret.res)

\* C9: when the base type is neither an array nor a struct and indices
\* remain, the resolver returns an error result to its caller: it does not
\* crash.
C9_NonAggregateReported ==
    (/\ Resolved
     /\ path # <<>>
     /\ heap[base].variant \notin {"array", "struct"})
      => ~Crashed(ret.res)

\* C10: an array step is not bounds-checked: on an array type, whatever the
\* first index is (beyond the length and negative included), the result is
\* the resolver's result on the element type with the rest of the path, so
\* [1, 99, 1] on Struct{i32, Array(4, Struct{i8, i16})} yields i16; a struct
\* step with an index that is no field position does not yield a type.
C10_ArrayStepUnchecked ==
    Resolved =>
      /\ path # <<>> /\ heap[base].variant = "array"
           => ret.res = aggregateElemType(heap, heap[base].ElemType, Tail(path))
      /\ IsExampleAggregate(heap, base) /\ path = <<1, 99, 1>>
           => ret.res = Returns(I16)
      /\ (/\ path # <<>>
          /\ heap[base].variant = "struct"
          /\ ~ValidField(heap[base], path[1]))
           => Crashed(ret.res)

C10_Witness ==
    /\ Resolved
    /\ IsExampleAggregate(heap, base)
    /\ path = <<1, 99, 1>>
    /\ heap[heap[base].Fields[2]].Len = 4
    /\ ret.res = Returns(I16)

(***************************************************************************)
(* Properties of the constant expressions and of the conversions (checked   *)
(* under SpecConversion).                                                   *)
(***************************************************************************)

\* The value a call of Type, String, Ident, Def or Simplify was made on.
self == ret.args[1]

IsConversion(n) == n.kind \in {"inst", "expr"}

\* ", <attachment>" for each of the first k attachments, in declaration
\* order.
RECURSIVE Attached(_, _)
Attached(mds, k) ==
    IF k = 0 THEN ""
    ELSE Attached(mds, k - 1) \o ", " \o MetadataAttachmentString(mds[k])

\* ", <idx>" for each of the first k indices, in path order.
RECURSIVE Indexed(_, _)
Indexed(indices, k) ==
    IF k = 0 THEN ""
    ELSE Indexed(indices, k - 1) \o ", " \o ToString(indices[k])

\* "<type> <value>" of an operand that has a type.
TypeValue(v) ==
    String(heap, ValueType(heap, vals, v).val) \o " " \o Ident(heap, vals, v)

HasType(v) == ~Crashed(ValueType(heap, vals, v))

\* C11 (SpecConversion): Simplify of every constant expression returns, and
\* returns a Constant.
C11_SimplifyIsTotal ==
    ret.op = "Simplify" =>
      /\ ~Crashed(ret.res)
      /\ ret.res.val \in Constants(vals)

\* C12 (SpecConversion): Simplify is idempotent: what Simplify(e) returns,
\* Simplify returns unchanged.
C12_SimplifyIsIdempotent ==
    ret.op = "Simplify" =>
      LET once == ret.res
      IN  /\ once.fault = ""
          /\ IsExpression(vals[once.val])
               => ExprSimplify(vals, once.val) = once

\* C13 (SpecConversion): Type() of an icmp or fcmp expression returns, and
\* returns i1 for scalar operands and a vector of i1 of the operands'
\* length for vector operands.
C13_CmpTypeIsBoolean ==
    (ret.op = "Type" /\ vals[self].kind \in {"icmp", "fcmp"}) =>
      /\ ~Crashed(ret.res)
      /\ LET x == heap[ValueType(heap, vals, vals[self].X).val]
             typ == heap[ret.res.val]
         IN  IF x.variant = "vector"
             THEN /\ typ.variant = "vector"
                  /\ typ.Len = x.Len
                  /\ heap[typ.ElemType] = IntType(1)
             ELSE typ = IntType(1)

\* C14 (SpecConversion): the select expression NewSelectExpr(cond, x, y)
\* returns, with x different from y, holds cond, x and y and has the Ident
\* "select (<cond>, <x>, <y>)".
C14_SelectHoldsItsOperands ==
    (ret.op = "NewSelectExpr" /\ ret.args[2] # ret.args[3]) =>
      LET e == ret.res.val
          cond == ret.args[1]
          x == ret.args[2]
          y == ret.args[3]
      IN  /\ vals[e].Cond = cond
          /\ vals[e].X = x
          /\ vals[e].Y = y
          /\ Ident(heap, vals, e)
               = CatAll(<<"select (", Operand(heap, vals, cond), ", ",
                          Operand(heap, vals, x), ", ",
                          Operand(heap, vals, y), ")">>)

\* The constructors of the conversion instructions and expressions.
ConversionConstructors ==
    {"New" \o variant : variant \in Conversions}
      \cup {"New" \o variant \o "Expr" : variant \in Conversions}

\* C17 (SpecConversion): the constructors of the 13 conversion instructions
\* and expressions return a value that holds the operand and the target
\* type given; Type() of it returns exactly the target type To; and Type(),
\* Def(), Ident() and String() of it return, whatever the operand's type
\* and the target type are.
C17_ConversionTypeIsTo ==
    /\ ret.op \in ConversionConstructors =>
         /\ ~Crashed(ret.res)
         /\ vals[ret.res.val].From = ret.args[1]
         /\ vals[ret.res.val].To = ret.args[2]
    /\ (ret.op = "Type" /\ IsConversion(vals[self])) =>
         ret.res = Returns(vals[self].To)
    /\ (ret.op \in {"Def", "Ident", "String"} /\ IsConversion(vals[self])) =>
         ~Crashed(ret.res)

\* trunc from i32 to i64
C17_Witness ==
    /\ ret.op = "Type"
    /\ vals[self].kind = "inst"
    /\ vals[self].variant = "Trunc"
    /\ ValueType(heap, vals, vals[self].From) = Returns(I32)
    /\ heap[vals[self].To] = IntType(64)
    /\ ret.res = Returns(vals[self].To)

\* C18 (SpecConversion): Def() of a conversion instruction whose operand
\* has a type is "<opcode> <srcType> <srcOperand> to <dstType>" with the
\* variant's keyword, followed by ", <attachment>" for each metadata
\* attachment in declaration order; a trunc of %x of type i64 to i32 without
\* metadata is "trunc i64 %x to i32".
C18_ConversionDef ==
    (ret.op = "Def" /\ vals[self].kind = "inst") =>
      LET inst == vals[self]
      IN  /\ HasType(inst.From) =>
               ret.res = Returns(InstKeyword[inst.variant] \o " "
                                 \o TypeValue(inst.From) \o " to "
                                 \o String(heap, inst.To)
                                 \o Attached(inst.Metadata, Len(inst.Metadata)))
          /\ (/\ inst.variant = "Trunc"
              /\ vals[inst.From].kind = "param"
              /\ vals[inst.From].LocalName = "x"
              /\ heap[vals[inst.From].Typ] = IntType(64)
              /\ inst.To = I32
              /\ inst.Metadata = <<>>)
               => ret.res = Returns("trunc i64 %x to i32")

C18_Witness ==
    /\ ret.op = "Def"
    /\ vals[self].kind = "inst"
    /\ vals[self].variant = "AddrSpaceCast"
    /\ HasType(vals[self].From)
    /\ Len(vals[self].Metadata) = 2
    /\ ret.res = Returns("addrspacecast i64 %x to i32, !dbg !1, !prof !2")

\* The keywords of the conversions.
Keywords ==
    {InstKeyword[variant] : variant \in Conversions}
      \cup {ExprKeyword[variant] : variant \in Conversions}

\* The conversion instructions of the same kind, source operand and target
\* type as conversion expression e.
Mirrors(e) ==
    {i \in Refs(vals) :
        /\ vals[i].kind = "inst"
        /\ vals[i].variant = vals[e].variant
        /\ vals[i].From = vals[e].From
        /\ vals[i].To = vals[e].To}

\* C19 (SpecConversion): a conversion expression mirrors the conversion
\* instruction of the same kind, source operand and target type: Type() of
\* both is the same type, and for a source operand that has a type the
\* expression's Ident() is "<opcode> (<srcType> <srcConst> to <dstType>)",
\* without result name and metadata, where <opcode> is the keyword that the
\* instruction's Def() "<opcode> <srcType> <srcConst> to <dstType>..."
\* starts with.
C19_ExprMirrorsInst ==
    (ret.op = "Ident" /\ vals[self].kind = "expr") =>
      \A i \in Mirrors(self) :
        /\ ValueType(heap, vals, i) = ValueType(heap, vals, self)
        /\ HasType(vals[self].From) =>
             \E opcode \in Keywords :
               /\ ValueDef(heap, vals, i)
                    = Returns(opcode \o " " \o TypeValue(vals[i].From)
                              \o " to " \o String(heap, vals[i].To)
                              \o Attached(vals[i].Metadata,
                                          Len(vals[i].Metadata)))
               /\ ret.res
                    = Returns(opcode \o " (" \o TypeValue(vals[self].From)
                              \o " to " \o String(heap, vals[self].To)
                              \o ")")

C19_Witness ==
    /\ ret.op = "Ident"
    /\ vals[self].kind = "expr"
    /\ vals[self].variant = "FPToSI"
    /\ \E i \in Mirrors(self) : vals[i].Metadata # <<>>
    /\ ret.res = Returns("fptosi (i32 1 to i64)")

(***************************************************************************)
(* Properties of extractvalue and insertvalue (checked under SpecAggInst).  *)
(***************************************************************************)

\* C15 (SpecAggInst): NewExtractValue(x, indices) returns an instruction
\* that holds x and indices, and Type() of it is what aggregateElemType
\* finds at the index path starting from x.Type(): the same type when it
\* returns one, the same failure when it fails.
C15_ExtractValueType ==
    /\ ret.op = "NewExtractValue" =>
         /\ vals[ret.res.val].X = ret.args[1]
         /\ vals[ret.res.val].Indices = ret.args[2]
    /\ (ret.op = "Type" /\ vals[self].kind = "extractvalue") =>
         LET inst == vals[self]
             x == ValueType(heap, vals, inst.X)
         IN  IF Crashed(x) THEN ret.res = x
             ELSE ret.res = aggregateElemType(heap, x.val, inst.Indices)

\* the element i8 at [1] of { i32, i8 }
C15_Witness ==
    /\ ret.op = "Type"
    /\ vals[self].kind = "extractvalue"
    /\ vals[vals[self].X].kind = "param"
    /\ heap[vals[vals[self].X].Typ] = StructType(<<I32, I8>>)
    /\ vals[self].Indices = <<1>>
    /\ ret.res = Returns(I8)

\* C16 (SpecAggInst): NewInsertValue(x, elem, indices) returns an
\* instruction that holds x, elem and indices, and Type() of it is x's own
\* type, whatever elem and indices are: the path is not resolved.
C16_InsertValueType ==
    /\ ret.op = "NewInsertValue" =>
         /\ vals[ret.res.val].X = ret.args[1]
         /\ vals[ret.res.val].Elem = ret.args[2]
         /\ vals[ret.res.val].Indices = ret.args[3]
    /\ (ret.op = "Type" /\ vals[self].kind = "insertvalue") =>
         ret.res = ValueType(heap, vals, vals[self].X)

\* an element of the aggregate's own type at a path that the aggregate
\* does not have
C16_Witness ==
    /\ ret.op = "Type"
    /\ vals[self].kind = "insertvalue"
    /\ vals[vals[self].X].kind = "param"
    /\ vals[vals[self].X].Typ = Top
    /\ heap[Top].variant = "struct"
    /\ vals[vals[self].Elem].kind = "param"
    /\ vals[vals[self].Elem].Typ = I8
    /\ Crashed(aggregateElemType(heap, Top, vals[self].Indices))
    /\ ret.res = Returns(Top)

\* C20 (SpecAggInst): Def() of an extractvalue whose operand has a type is
\* "extractvalue <aggType> <agg>", then ", <idx>" for each index in path
\* order, then ", <attachment>" for each metadata attachment in declaration
\* order; Def() of an insertvalue whose operands have types is
\* "insertvalue <aggType> <agg>, <elemType> <elem>" with the same suffixes;
\* extractvalue of %s of type { i32, i8 } at [1] without metadata is
\* "extractvalue { i32, i8 } %s, 1".
C20_AggregateDef ==
    /\ (ret.op = "Def" /\ vals[self].kind = "extractvalue") =>
         LET inst == vals[self]
         IN  /\ HasType(inst.X) =>
                  ret.res = Returns("extractvalue " \o TypeValue(inst.X)
                                    \o Indexed(inst.Indices, Len(inst.Indices))
                                    \o Attached(inst.Metadata,
                                                Len(inst.Metadata)))
             /\ (/\ vals[inst.X].kind = "param"
                 /\ vals[inst.X].LocalName = "s"
                 /\ heap[vals[inst.X].Typ] = StructType(<<I32, I8>>)
                 /\ inst.Indices = <<1>>
                 /\ inst.Metadata = <<>>)
                  => ret.res = Returns("extractvalue { i32, i8 } %s, 1")
    /\ (ret.op = "Def" /\ vals[self].kind = "insertvalue") =>
         LET inst == vals[self]
         IN  (HasType(inst.X) /\ HasType(inst.Elem)) =>
               ret.res = Returns("insertvalue " \o TypeValue(inst.X) \o ", "
                                 \o TypeValue(inst.Elem)
                                 \o Indexed(inst.Indices, Len(inst.Indices))
                                 \o Attached(inst.Metadata,
                                             Len(inst.Metadata)))

C20_Witness ==
    /\ ret.op = "Def"
    /\ vals[self].kind = "extractvalue"
    /\ Len(vals[self].Indices) = 2
    /\ Len(vals[self].Metadata) = 2
    /\ ret.res = Returns("extractvalue { i32, i8 } %s, 1, 0, !dbg !1, !prof !2")

\* insertvalue with an index and an attachment
C20_WitnessInsertValue ==
    /\ ret.op = "Def"
    /\ vals[self].kind = "insertvalue"
    /\ ret.res = Returns("insertvalue { i32, i8 } %s, i8 %s, 1, !dbg !1")

(***************************************************************************)
(* Properties of the rendering of types (checked under SpecRender).         *)
(***************************************************************************)
node == heap[ret.args[1]]

\* The display form of component t: its alias as a local identifier when it
\* has one, else its definition.
Display(t) ==
    IF heap[t].Alias # "" THEN Local(heap[t].Alias) ELSE Def(heap, t)

\* The display forms of the components ts[1..k], separated by ", ".
RECURSIVE DisplayList(_, _)
DisplayList(ts, k) ==
    IF k = 0 THEN ""
    ELSE (IF k > 1 THEN DisplayList(ts, k - 1) \o ", " ELSE "")
           \o Display(ts[k])

C22_CanonicalDef ==
    ret.op = "Type.Def" =>
      /\ node.variant = "int" =>
           ret.res = Returns("i" \o ToString(node.BitSize))
      /\ node.variant = "pointer" =>
           ret.res = Returns(Display(node.ElemType)
                             \o (IF node.AddrSpace = 0 THEN "*"
                                 ELSE " addrspace(" \o ToString(node.AddrSpace)
                                        \o ")*"))
      /\ node.variant = "array" =>
           ret.res = Returns("[" \o ToString(node.Len) \o " x "
                             \o Display(node.ElemType) \o "]")
      /\ node.variant = "struct" =>
           ret.res = Returns(IF node.Opaque THEN "opaque"
                             ELSE IF node.Packed
                             THEN "<{ " \o DisplayList(node.Fields,
                                                       Len(node.Fields))
                                    \o " }>"
                             ELSE "{ " \o DisplayList(node.Fields,
                                                      Len(node.Fields))
                                    \o " }")
      /\ node.variant = "func" =>
           ret.res = Returns(Display(node.RetType) \o " ("
                             \o DisplayList(node.Params, Len(node.Params))
                             \o (IF ~node.Variadic THEN ""
                                 ELSE IF Len(node.Params) > 0 THEN ", ..."
                                 ELSE "...")
                             \o ")")
      /\ (node = ArrayType(4, I32) /\ heap[I32].Alias = "") =>
           ret.res = Returns("[4 x i32]")
      /\ (node = [PointerType(I8) EXCEPT !.AddrSpace = 1]
            /\ heap[I8].Alias = "") =>
           ret.res = Returns("i8 addrspace(1)*")
      /\ (/\ node.variant = "struct"
          /\ node.Packed /\ ~node.Opaque /\ node.Alias = ""
          /\ Len(node.Fields) = 2
          /\ node.Fields[1] = I32
          /\ heap[node.Fields[2]] = IntType(64)) =>
           ret.res = Returns("<{ i32, i64 }>")

\* the packed struct of i32 and i64
C22_Witness ==
    /\ ret.op = "Type.Def"
    /\ node.variant = "struct"
    /\ node.Packed
    /\ ret.res = Returns("<{ i32, i64 }>")

\* a variadic function type with a parameter, a pointer in address space 1
\* and an opaque packed struct with fields
C22_WitnessVariadic ==
    /\ ret.op = "Type.Def"
    /\ node.variant = "func"
    /\ ret.res = Returns("i8 addrspace(1)* (i32, ...)")

C22_WitnessOpaque ==
    /\ ret.op = "Type.Def"
    /\ node.variant = "struct"
    /\ node.Packed /\ node.Fields # <<>>
    /\ ret.res = Returns("opaque")

(***************************************************************************)
(* Properties of the instruction names (checked under SpecName).            *)
(***************************************************************************)

\* What a step of the caller changes: the type nodes, the values, or the
\* call that is waiting for its result to be taken.
called == <<heap, vals, ret.op>>

\* The constructors of the instructions.
InstructionConstructors ==
    {"New" \o variant : variant \in Conversions}
      \cup {"NewExtractValue", "NewInsertValue"}

\* C23 (SpecName): an instruction of any opcode is made with the empty
\* name, SetName(name) makes name its name, no other call changes a name,
\* and Ident() returns the local identifier of that name and Name() the
\* name itself.
C23_IdentIsLocalName ==
    [][/\ ret'.op \in InstructionConstructors =>
            vals'[ret'.res.val].LocalName = ""
       /\ ret'.op = "SetName" =>
            vals'[ret'.args[1]].LocalName = ret'.args[2]
       /\ \A v \in Instructions(vals) :
            (ret'.op = "SetName" /\ ret'.args[1] = v)
              \/ vals'[v].LocalName = vals[v].LocalName
       /\ ret'.op = "Ident" =>
            ret'.res = Returns("%" \o vals[ret'.args[1]].LocalName)
       /\ ret'.op = "Name" =>
            ret'.res = Returns(vals[ret'.args[1]].LocalName)]_called

\* an insertvalue named b whose operand is an instruction named a
C23_Witness ==
    /\ ret.op = "Ident"
    /\ vals[self].kind = "insertvalue"
    /\ vals[self].LocalName = "b"
    /\ vals[vals[self].X].kind = "inst"
    /\ vals[vals[self].X].LocalName = "a"
    /\ ret.res = Returns("%b")

\* C25 (SpecName): two distinct instructions never have the same Ident().
C25_IdentIsInjective ==
    \A i, j \in Instructions(vals) :
      i # j => Ident(heap, vals, i) # Ident(heap, vals, j)

(***************************************************************************)
(* Properties of an instruction's lifetime (checked under SpecLifetime).    *)
(***************************************************************************)

\* C24 (SpecLifetime): SetName stores the name and nothing else: the
\* operands, the target type, the index path, the metadata and the cached
\* type of the instruction, every other value and every type node are left
\* as they were, and Def() and Type() of the instruction return what they
\* returned before.
C24_SetNameOnlyRenames ==
    [][ret'.op = "SetName" =>
         LET v == ret'.args[1]
         IN  /\ vals' = [vals EXCEPT ![v].LocalName = ret'.args[2]]
             /\ heap' = heap
             /\ ValueDef(heap', vals', v) = ValueDef(heap, vals, v)
             /\ ValueType(heap', vals', v) = ValueType(heap, vals, v)]_called

\* an extractvalue renamed after its type was cached and its metadata
\* attached
C24_Witness ==
    /\ ret.op = "SetName"
    /\ vals[self].kind = "extractvalue"
    /\ vals[self].LocalName = "b"
    /\ vals[self].Typ = I8
    /\ vals[self].Metadata # <<>>

\* The type of value v computed from the operands' types and the index
\* paths alone, no cache read.
RECURSIVE Computed(_)
Computed(v) ==
    LET n == vals[v]
    IN  CASE n.kind = "param" -> Returns(n.Typ)
          [] n.kind = "inst" -> Returns(n.To)
          [] n.kind = "insertvalue" -> Computed(n.X)
          [] n.kind = "extractvalue" ->
               LET x == Computed(n.X)
               IN  IF Crashed(x) THEN x
                   ELSE aggregateElemType(heap, x.val, n.Indices)

AggregateInstructions ==
    {v \in Refs(vals) : vals[v].kind \in {"extractvalue", "insertvalue"}}

\* C27 (SpecLifetime): in every reachable state the cached Typ of an
\* extractvalue or insertvalue is unset or the type computed from the
\* operand's type and the index path; no call changes the operand, the
\* index path or a cached Typ that is set; and every Type() call on the
\* instruction returns that computed type, the first and each later one.
C27_TypeIsConsistent ==
    /\ [](\A v \in AggregateInstructions :
            vals[v].Typ = Nil \/ Returns(vals[v].Typ) = Computed(v))
    /\ [][/\ \A v \in AggregateInstructions :
               /\ vals'[v].X = vals[v].X
               /\ vals'[v].Indices = vals[v].Indices
               /\ vals[v].Typ # Nil => vals'[v].Typ = vals[v].Typ
          /\ (ret'.op = "Type" /\ ret'.args[1] \in AggregateInstructions) =>
               /\ ret'.res = Computed(ret'.args[1])
               /\ ~Crashed(ret'.res) =>
                    vals'[ret'.args[1]].Typ = ret'.res.val]_called

\* Type() of a renamed extractvalue of an insertvalue, both with the type
\* cached
C27_Witness ==
    /\ ret.op = "Type"
    /\ vals[self].kind = "extractvalue"
    /\ vals[self].LocalName = "a"
    /\ vals[vals[self].X].kind = "insertvalue"
    /\ vals[vals[self].X].Typ = Top
    /\ vals[self].Typ = I8
    /\ ret.res = Returns(I8)

(***************************************************************************)
(* Properties of shared type nodes (checked under SpecShared).              *)
(***************************************************************************)

\* The type nodes that type node n refers to.
Components(n) ==
    CASE n.variant \in {"pointer", "vector", "array"} -> {n.ElemType}
      [] n.variant = "struct" -> {n.Fields[i] : i \in 1..Len(n.Fields)}
      [] n.variant = "func"
           -> {n.RetType} \cup {n.Params[i] : i \in 1..Len(n.Params)}
      [] OTHER -> {}

\* The type nodes that value n refers to.
TypesOf(n) ==
    CASE n.kind \in {"param", "const"} -> {n.Typ}
      [] n.kind \in {"inst", "expr"} -> {n.To}
      [] n.kind \in {"extractvalue", "insertvalue"} -> {n.Typ} \ {Nil}
      [] OTHER -> {}

\* Type node t is referred to by more than one owner.
Shared(t) ==
    Cardinality({v \in Refs(vals) : t \in TypesOf(vals[v])})
      + Cardinality({u \in Refs(heap) : t \in Components(heap[u])}) > 1

\* C26 (SpecShared): no step changes what String(), Def() and Equal return
\* for a type node that more than one owner refers to.
C26_SharedTypesAreImmutable ==
    [][\A t \in Refs(heap) :
         Shared(t) =>
           /\ String(heap', t) = String(heap, t)
           /\ Def(heap', t) = Def(heap, t)
           /\ \A u \in Refs(heap) :
                /\ Equal(heap', t, u) = Equal(heap, t, u)
                /\ Equal(heap', u, t) = Equal(heap, u, t)]_called

(***************************************************************************)
(* Further properties of Equal (checked under SpecNominal).                 *)
(***************************************************************************)

\* C29 (SpecNominal): Equal is symmetric on all type nodes, aliased or not,
\* of the same variant or not: t.Equal(u) returns what u.Equal(t) returns.
C29_EqualIsSymmetric ==
    Compared => ret.res = Equal(heap, rhs, lhs)

\* C30 (SpecNominal): two pointer types without alias are equal exactly
\* when their address spaces are equal and their element types are equal,
\* whatever aliases the element types carry.
C30_PointerEqualFollowsElements ==
    (/\ Compared
     /\ heap[lhs].variant = "pointer" /\ heap[rhs].variant = "pointer"
     /\ ~Aliased(lhs) /\ ~Aliased(rhs)) =>
      ret.res = Returns(/\ heap[lhs].AddrSpace = heap[rhs].AddrSpace
                        /\ Equal(heap, heap[lhs].ElemType,
                                 heap[rhs].ElemType).val)

(***************************************************************************)
(* Properties of concurrent Type() calls (checked under SpecRace).          *)
(***************************************************************************)

\* C28 (SpecRace): whatever the interleaving of the Type() calls on one
\* extractvalue or insertvalue, every call that returns, returns the fully
\* computed type: both words of the interface value it read are those of
\* that type, none is unset.
C28_CacheIsRaceSafe ==
    \A i \in 1..Len(threads) :
      threads[i].pc = "done" =>
        LET typ == Computed(threads[i].self)
        IN  /\ threads[i].tab = TypeWord(typ.val)
            /\ threads[i].data = typ.val

====
